---- MODULE Spec2Model ----
(***************************************************************************)
(* Model of src/sal_file.rs: the CloudFile catalog (credentials, file map  *)
(* and the raw container bytes mirroring them), its matrix codec, its      *)
(* container format and the scan / get_link / set_stream session protocol. *)
(*                                                                         *)
(* Rust Strings are modelled as the sequences of their UTF-8 bytes, and    *)
(* io::Result<T> as a record [kind, val]: kind is "Ok" or the ErrorKind.   *)
(***************************************************************************)
EXTENDS Integers, Sequences, FiniteSets, TLC

(***************************************************************************)
(* The state: one CloudFile and the outcome of the last call on it, and    *)
(* for the codec on its own one job and what has been computed from it.    *)
(***************************************************************************)
VARIABLES
    pc,        \* "live": the catalog exists; "failed": the constructor
               \* returned an error; "aborted": a panic ended the program;
               \* "codec": no catalog, the codec runs on its own
    inner, stream, uid, token, dirid, filemap,   \* the fields of CloudFile
    passwd0,   \* the passkey the catalog was constructed with
    last,      \* the last call: op, arg, the kind and value of its result
               \* and the requests it wrote
    ops,       \* calls made on the catalog since its construction
    job,       \* the input of the codec: passwd and data
    out,       \* the step reached on the job and its results
    remote     \* the records the catalog host holds, where the host is
               \* followed from call to call

vars == <<pc, inner, stream, uid, token, dirid, filemap, passwd0, last, ops, job, out,
          remote>>

(***************************************************************************)
(* Bounds of the model.                                                    *)
(***************************************************************************)
\* Calls made on one catalog after its construction.
MaxOps == 3
\* Longest byte sequence handed to the codec on its own.
MaxLen == 3
\* Longest list region appended to the 64-byte base region by the container
\* round trip.
MaxTail == 2
\* Most records the catalog host holds when the scan loop starts.
MaxRecords == 5

(***************************************************************************)
(* Byte strings.                                                           *)
(***************************************************************************)
\* The printable ASCII characters in code order: 32..95 and 97..126.
AsciiLo == " !\"#$%&'()*+,-./0123456789:;<=>?@ABCDEFGHIJKLMNOPQRSTUVWXYZ[\\]^_"
AsciiHi == "abcdefghijklmnopqrstuvwxyz{|}~"

\* String::as_bytes for a one-character string.
Code(ch) ==
    IF \E i \in 1..Len(AsciiLo) : SubSeq(AsciiLo, i, i) = ch
    THEN 31 + (CHOOSE i \in 1..Len(AsciiLo) : SubSeq(AsciiLo, i, i) = ch)
    ELSE 96 + (CHOOSE i \in 1..Len(AsciiHi) : SubSeq(AsciiHi, i, i) = ch)

\* String::as_bytes for a string literal of printable ASCII.
B(str) == [i \in 1..Len(str) |-> Code(SubSeq(str, i, i))]

CRLF == <<13, 10>>
ESC == 27
SUB == 26

Min(S) == CHOOSE x \in S : \A y \in S : x <= y

\* str::find: the 1-based position of the first occurrence, 0 for None.
Find(s, pat) ==
    LET hits == {i \in 1..(Len(s) - Len(pat) + 1) :
                    s[i] = pat[1] /\ SubSeq(s, i, i + Len(pat) - 1) = pat}
    IN  IF hits = {} THEN 0 ELSE Min(hits)

\* str::contains
Contains(s, pat) == Find(s, pat) # 0

\* The slice s[from..] with a 1-based start.
From(s, from) == SubSeq(s, from, Len(s))

\* str::split_once: <<>> for None, else <<before, after>>.
SplitOnce(s, pat) ==
    LET o == Find(s, pat)
    IN  IF o = 0 THEN <<>>
        ELSE <<SubSeq(s, 1, o - 1), From(s, o + Len(pat))>>

\* str::split on a pattern: always at least one piece.
RECURSIVE Split(_, _)
Split(s, pat) ==
    LET o == Find(s, pat)
    IN  IF o = 0 THEN <<s>>
        ELSE <<SubSeq(s, 1, o - 1)>> \o Split(From(s, o + Len(pat)), pat)

\* str::splitn: at most n pieces, the last one holding the rest.
RECURSIVE SplitN(_, _, _)
SplitN(n, s, pat) ==
    LET o == Find(s, pat)
    IN  IF n <= 1 \/ o = 0 THEN <<s>>
        ELSE <<SubSeq(s, 1, o - 1)>> \o SplitN(n - 1, From(s, o + Len(pat)), pat)

\* [T]::join with a separator.
RECURSIVE Join(_, _)
Join(parts, sep) ==
    IF parts = <<>> THEN <<>>
    ELSE IF Len(parts) = 1 THEN parts[1]
    ELSE parts[1] \o sep \o Join(Tail(parts), sep)

\* str::replace of every space by the empty string.
DropSpaces(s) == SelectSeq(s, LAMBDA b : b # 32)

\* char::is_whitespace on the one-byte characters.
IsSpace(b) == b \in {9, 10, 11, 12, 13, 32}

\* str::trim (inputs of the model hold no multi-byte white space).
RECURSIVE TrimStart(_)
TrimStart(s) ==
    IF s # <<>> /\ IsSpace(Head(s)) THEN TrimStart(Tail(s)) ELSE s

RECURSIVE TrimEnd(_)
TrimEnd(s) ==
    IF s # <<>> /\ IsSpace(s[Len(s)]) THEN TrimEnd(SubSeq(s, 1, Len(s) - 1)) ELSE s

Trim(s) == TrimEnd(TrimStart(s))

\* U+FFFD, what from_utf8_lossy puts in place of an ill-formed sequence.
Replacement == <<239, 191, 189>>

IsCont(s, i, lo, hi) == i <= Len(s) /\ s[i] >= lo /\ s[i] <= hi

\* The range the second byte of a multi-byte sequence must lie in.
SecondLo(b) == IF b = 224 THEN 160 ELSE IF b = 240 THEN 144 ELSE 128
SecondHi(b) == IF b = 237 THEN 159 ELSE IF b = 244 THEN 143 ELSE 191

\* <<n, ok>>: the length of the chunk starting at s[1] and whether it is a
\* well-formed UTF-8 sequence (an ill-formed chunk is its maximal prefix).
Utf8Chunk(s) ==
    LET b == s[1]
        need == IF b < 128 THEN 1
                ELSE IF b >= 194 /\ b <= 223 THEN 2
                ELSE IF b >= 224 /\ b <= 239 THEN 3
                ELSE IF b >= 240 /\ b <= 244 THEN 4
                ELSE 0
    IN  IF need = 0 THEN <<1, FALSE>>
        ELSE IF need = 1 THEN <<1, TRUE>>
        ELSE IF ~IsCont(s, 2, SecondLo(b), SecondHi(b)) THEN <<1, FALSE>>
        ELSE IF need = 2 THEN <<2, TRUE>>
        ELSE IF ~IsCont(s, 3, 128, 191) THEN <<2, FALSE>>
        ELSE IF need = 3 THEN <<3, TRUE>>
        ELSE IF ~IsCont(s, 4, 128, 191) THEN <<3, FALSE>>
        ELSE <<4, TRUE>>

\* String::from_utf8_lossy: the one-byte characters up to the first byte
\* above 127 are kept as they are, then the chunk starting there is kept or
\* replaced, and so on for the rest.
RECURSIVE Utf8Lossy(_)
Utf8Lossy(s) ==
    LET high == {i \in 1..Len(s) : s[i] >= 128}
    IN  IF high = {} THEN s
        ELSE LET at == Min(high)
                 c == Utf8Chunk(From(s, at))
             IN  SubSeq(s, 1, at - 1)
                    \o (IF c[2] THEN SubSeq(s, at, at + c[1] - 1) ELSE Replacement)
                    \o Utf8Lossy(From(s, at + c[1]))

(***************************************************************************)
(* io::Result                                                              *)
(***************************************************************************)
Ok(v) == [kind |-> "Ok", val |-> v]
Err(k) == [kind |-> k, val |-> <<>>]
\* An error as it would be if its message left out the text received.
ErrWith_bare(k, text) == [kind |-> k, val |-> <<>>]

\* An error whose message carries text received from the peer.
ErrWith(k, text) == [kind |-> k, val |-> text]
IsOk(r) == r.kind = "Ok"

(***************************************************************************)
(* Codec: matrix_encode, matrix_decode, sixteen_to_eight, eight_to_sixteen *)
(***************************************************************************)
W16(x) == x % 65536

\* ((x mod 2^32) / val) as u8 for a u32 difference x that may have gone below
\* zero and wrapped. 2^32 + x is divided as the two 16-bit digits hi and lo,
\* so that no intermediate value leaves the 32-bit integers.
U32DivToU8(x, val) ==
    IF x >= 0 THEN (x \div val) % 256
    ELSE LET h == ((0 - x) + 65535) \div 65536
             lo == x + h * 65536
             hi == 65536 - h
         IN  (((hi % val) * 65536 + lo) \div val) % 256

\* The passkey guard as it would be if it let a zero determinant through.
PasswdGuard_nonneg(passwd) ==
    IF \E i \in 1..4 : passwd[i] > 128 THEN "InvalidInput"
    ELSE IF passwd[1] * passwd[4] < passwd[2] * passwd[3] THEN "InvalidInput"
    ELSE "Ok"

\* The passkey guard as it would be with every u8 component let through.
PasswdGuard_wide(passwd) ==
    IF passwd[1] * passwd[4] <= passwd[2] * passwd[3] THEN "InvalidInput"
    ELSE "Ok"

\* The passkey guard shared by matrix_encode and matrix_decode: "Ok" or the
\* kind of the error returned.
PasswdGuard(passwd) ==
    IF \E i \in 1..4 : passwd[i] > 128 THEN "InvalidInput"
    ELSE IF passwd[1] * passwd[4] <= passwd[2] * passwd[3] THEN "InvalidInput"
    ELSE "Ok"

\* One of the u16 products or sums for the byte pair (p0, p1), or one of the
\* products of the guard, passes 65535: the build with overflow checks
\* aborts there, the build without them wraps.
EncodeOverflows(passwd, p0, p1) ==
    \/ passwd[1] * passwd[4] > 65535
    \/ passwd[2] * passwd[3] > 65535
    \/ passwd[1] * p0 + passwd[2] * p1 > 65535
    \/ passwd[3] * p0 + passwd[4] * p1 > 65535

\* The words pushed for the byte pair (p0, p1), in u16 arithmetic.
EncodePair(passwd, p0, p1) ==
    << W16(W16(passwd[1] * p0) + W16(passwd[2] * p1)),
       W16(W16(passwd[3] * p0) + W16(passwd[4] * p1)) >>

\* matrix_encode as it would be if the odd trailing byte gave one word.
matrix_encode_single(passwd, data) ==
    IF PasswdGuard(passwd) # "Ok" THEN Err(PasswdGuard(passwd))
    ELSE Ok([k \in 1..(2 * (Len(data) \div 2)) |->
                EncodePair(passwd, data[2 * ((k + 1) \div 2) - 1],
                           data[2 * ((k + 1) \div 2)])[2 - (k % 2)]]
            \o (IF Len(data) % 2 = 1
                THEN << W16(passwd[1] * data[Len(data)]) >> ELSE <<>>))

matrix_encode(passwd, data) ==
    IF PasswdGuard(passwd) # "Ok" THEN Err(PasswdGuard(passwd))
    ELSE LET len == Len(data)
             max == len \div 2
             body == [k \in 1..(2 * max) |->
                        EncodePair(passwd, data[2 * ((k + 1) \div 2) - 1],
                                   data[2 * ((k + 1) \div 2)])[2 - (k % 2)]]
             odd == IF len % 2 = 1
                    THEN << W16(passwd[1] * data[len]), W16(passwd[3] * data[len]) >>
                    ELSE <<>>
         IN  Ok(body \o odd)

\* The bytes pushed for the word pair (w0, w1): u32 arithmetic that wraps,
\* an integer division by the determinant, and a truncating cast to u8.
DecodePair(passwd, w0, w1) ==
    LET val == passwd[1] * passwd[4] - passwd[2] * passwd[3]
    IN  << U32DivToU8(passwd[4] * w0 - passwd[2] * w1, val),
           U32DivToU8(passwd[1] * w1 - passwd[3] * w0, val) >>

\* One of the two u32 subtractions for (w0, w1) goes below zero: the build
\* with overflow checks aborts there, the build without them wraps.
DecodeUnderflows(passwd, w0, w1) ==
    \/ passwd[4] * w0 < passwd[2] * w1
    \/ passwd[1] * w1 < passwd[3] * w0

matrix_decode(passwd, data) ==
    IF PasswdGuard(passwd) # "Ok" THEN Err(PasswdGuard(passwd))
    ELSE IF Len(data) % 2 = 1 THEN Err("InvalidInput")
    ELSE Ok([k \in 1..Len(data) |->
                DecodePair(passwd, data[2 * ((k + 1) \div 2) - 1],
                           data[2 * ((k + 1) \div 2)])[2 - (k % 2)]])

\* matrix_decode meets a subtraction that underflows on these words.
DecodeAborts(passwd, data) ==
    /\ PasswdGuard(passwd) = "Ok"
    /\ Len(data) % 2 = 0
    /\ \E i \in 1..(Len(data) \div 2) :
            DecodeUnderflows(passwd, data[2 * i - 1], data[2 * i])

\* sixteen_to_eight as it would be if the odd trailing word gave its low
\* byte only.
sixteen_to_eight_narrow(from) ==
    [k \in 1..(2 * Len(from) - (Len(from) % 2)) |->
        IF k % 2 = 1 /\ k < 2 * Len(from) - (Len(from) % 2)
            THEN from[(k + 1) \div 2] \div 256
        ELSE from[(k + 1) \div 2] % 256]

sixteen_to_eight(from) ==
    [k \in 1..(2 * Len(from)) |->
        IF k % 2 = 1 THEN from[(k + 1) \div 2] \div 256
        ELSE from[k \div 2] % 256]

\* eight_to_sixteen with the odd trailing byte taken as the high byte.
eight_to_sixteen_high(from) ==
    LET len == Len(from)
        max == len \div 2
    IN  [i \in 1..max |-> W16(256 * from[2 * i - 1] + from[2 * i])]
            \o (IF len % 2 = 1 THEN <<W16(256 * from[len])>> ELSE <<>>)

eight_to_sixteen(from) ==
    LET len == Len(from)
        max == len \div 2
    IN  [i \in 1..max |-> W16(256 * from[2 * i - 1] + from[2 * i])]
            \o (IF len % 2 = 1 THEN <<from[len]>> ELSE <<>>)

(***************************************************************************)
(* Container format and catalog: new, from_raw, update_inner               *)
(***************************************************************************)
\* The shortest container: 16 header bytes and the encoded base region.
MinLen == 144
\* Length of the base region of the decoded plaintext.
BaseLen == 64

\* File header, [0, 8): the two magic fields.
DayRz == <<3, 3, 4, 21>>
DayYy == <<7, 23, 10, 8>>
\* [12, 16)
Etx == <<25, 0, 0, 3>>

\* The base data as it would be without the padding loop.
BaseData_bare(puid, tok, fldid) == Join(<<puid, tok, fldid>>, <<ESC>>)

\* The three credentials joined by ESC and padded with zero bytes up to the
\* base length (the while loop pushes nothing once the length is reached).
BaseData(puid, tok, fldid) ==
    LET data == Join(<<puid, tok, fldid>>, <<ESC>>)
    IN  data \o [i \in 1..(BaseLen - Len(data)) |-> 0]

\* Each entry as name SUB objid, the entries joined by ESC.
ListData(map) ==
    Join([i \in 1..Len(map) |-> Join(<<map[i][1], map[i][2]>>, <<SUB>>)], <<ESC>>)

\* The container for a plaintext: the header, the passkey, the trailer and
\* the encoded plaintext as bytes. Ok carries the container.
Container(passwd, plaintext) ==
    LET Packed(data) ==
            IF ~IsOk(data) THEN Err(data.kind)
            ELSE Ok(DayRz \o DayYy \o passwd \o Etx \o sixteen_to_eight(data.val))
    IN  Packed(matrix_encode(passwd, plaintext))

\* CloudFile::new: Ok carries the catalog.
new(puid, tok, fldid, passwd) ==
    LET Made(made) ==
            IF ~IsOk(made) THEN Err(made.kind)
            ELSE Ok([inner |-> made.val,
                     uid |-> puid, token |-> tok, dirid |-> fldid,
                     stream |-> "None", filemap |-> <<>>])
    IN  Made(Container(passwd, BaseData(puid, tok, fldid)))

\* The magic test of from_raw: TRUE when the file type is refused.
WrongFileType(day_rz, day_yy) == day_rz # DayRz /\ day_yy # DayYy

\* The list region parsed into entries; an entry without SUB is an error.
ParseList(list) ==
    LET Pairs(pairs) ==
            IF \E i \in 1..Len(pairs) : Len(pairs[i]) # 2 THEN Err("InvalidData")
            ELSE Ok(pairs)
        Entries(vals) == Pairs([i \in 1..Len(vals) |-> SplitN(2, vals[i], <<SUB>>)])
    IN  IF list = <<>> THEN Ok(<<>>)
        ELSE Entries(Split(Utf8Lossy(list), <<ESC>>))

\* The base region parsed into base_data: the pieces of splitn(3, ESC),
\* trimmed, over the initial three empty strings.
ParseBase(base) ==
    LET Trimmed(parts) == [i \in 1..3 |-> IF i <= Len(parts) THEN Trim(parts[i]) ELSE <<>>]
    IN  Trimmed(SplitN(3, Utf8Lossy(base), <<ESC>>))

\* The first half of from_raw as it would be with the magic test ahead of the
\* length test.
Parse_magic_first(raw_data) ==
    LET Decoded(passwd, data) ==
            IF ~IsOk(data) THEN Err(data.kind)
            ELSE Ok([passwd |-> passwd, data |-> data.val])
    IN  IF WrongFileType(SubSeq(raw_data, 1, 4), SubSeq(raw_data, 5, 8))
        THEN Err("Unsupported")
        ELSE IF Len(raw_data) < MinLen THEN Err("InvalidInput")
        ELSE Decoded(SubSeq(raw_data, 9, 12),
                     matrix_decode(SubSeq(raw_data, 9, 12),
                                   eight_to_sixteen(From(raw_data, 17))))

\* The first half of from_raw: the length and magic checks, the passkey and
\* the decoded plaintext. Ok carries both.
Parse(raw_data) ==
    LET Decoded(passwd, data) ==
            IF ~IsOk(data) THEN Err(data.kind)
            ELSE Ok([passwd |-> passwd, data |-> data.val])
    IN  IF Len(raw_data) < MinLen THEN Err("InvalidInput")
        ELSE IF WrongFileType(SubSeq(raw_data, 1, 4), SubSeq(raw_data, 5, 8))
        THEN Err("Unsupported")
        ELSE Decoded(SubSeq(raw_data, 9, 12),
                     matrix_decode(SubSeq(raw_data, 9, 12),
                                   eight_to_sixteen(From(raw_data, 17))))

\* CloudFile::from_raw: Ok carries the catalog.
from_raw(raw_data) ==
    LET Built(base_data, list_res) ==
            IF ~IsOk(list_res) THEN Err(list_res.kind)
            ELSE Ok([inner |-> raw_data,
                     uid |-> base_data[1], token |-> base_data[2],
                     dirid |-> base_data[3],
                     filemap |-> list_res.val, stream |-> "None"])
        Regions(parsed) ==
            IF ~IsOk(parsed) THEN Err(parsed.kind)
            ELSE Built(ParseBase(SubSeq(parsed.val.data, 1, BaseLen)),
                       ParseList(From(parsed.val.data, BaseLen + 1)))
    IN  Regions(Parse(raw_data))

\* from_raw gets as far as matrix_decode and a subtraction underflows there.
FromRawAborts(raw_data) ==
    /\ Len(raw_data) >= MinLen
    /\ ~WrongFileType(SubSeq(raw_data, 1, 4), SubSeq(raw_data, 5, 8))
    /\ DecodeAborts(SubSeq(raw_data, 9, 12), eight_to_sixteen(From(raw_data, 17)))

\* The message of the error the passkey guard returns.
GuardMessage(passwd) ==
    IF \E i \in 1..4 : passwd[i] > 128 THEN "Passwd Too Big: 0..=128"
    ELSE IF passwd[1] * passwd[4] <= passwd[2] * passwd[3]
    THEN "Wrong Passwd: the Val MUST be POSITIVE"
    ELSE ""

\* The message of the error from_raw returns from its checks of the length,
\* the file type and the passkey; empty when all three pass.
FromRawMessage(raw_data) ==
    IF Len(raw_data) < MinLen THEN "Len of Data to Short: [144..]"
    ELSE IF WrongFileType(SubSeq(raw_data, 1, 4), SubSeq(raw_data, 5, 8))
    THEN "Wrong File Type: Unsupported File Type"
    ELSE GuardMessage(SubSeq(raw_data, 9, 12))

\* The passkey update_inner reads back from the current container.
InnerPasswd(raw_data) == SubSeq(raw_data, 9, 12)

\* CloudFile::update_inner: Ok carries the rebuilt container.
update_inner(self) ==
    IF Len(self.inner) < MinLen THEN Err("InvalidInput")
    ELSE Container(InnerPasswd(self.inner),
                   BaseData(self.uid, self.token, self.dirid) \o ListData(self.filemap))

\* extend_from_raw as it would be if the entries of the merged file were
\* put ahead of the entries of the catalog.
extend_from_raw_ahead(self, raw_data) ==
    LET Stored(extended, upd) ==
            IF ~IsOk(upd) THEN [self |-> extended, res |-> Err(upd.kind)]
            ELSE [self |-> [extended EXCEPT !.inner = upd.val], res |-> Ok(<<>>)]
        Updated(extended) == Stored(extended, update_inner(extended))
        Extended(file) ==
            IF ~IsOk(file) THEN [self |-> self, res |-> Err(file.kind)]
            ELSE Updated([self EXCEPT !.filemap = file.val.filemap \o self.filemap])
    IN  Extended(from_raw(raw_data))

\* extend_from_raw as it would be if the container were rebuilt from the
\* header of the merged file.
extend_from_raw_rekeyed(self, raw_data) ==
    LET Stored(extended, upd) ==
            IF ~IsOk(upd) THEN [self |-> extended, res |-> Err(upd.kind)]
            ELSE [self |-> [extended EXCEPT !.inner = upd.val], res |-> Ok(<<>>)]
        Updated(extended) == Stored(extended, update_inner([extended EXCEPT !.inner = raw_data]))
        Extended(file) ==
            IF ~IsOk(file) THEN [self |-> self, res |-> Err(file.kind)]
            ELSE Updated([self EXCEPT !.filemap = self.filemap \o file.val.filemap])
    IN  Extended(from_raw(raw_data))

\* CloudFile::extend_from_raw on the catalog self: the new catalog and the
\* result. The entries are appended before update_inner runs.
extend_from_raw(self, raw_data) ==
    LET Stored(extended, upd) ==
            IF ~IsOk(upd) THEN [self |-> extended, res |-> Err(upd.kind)]
            ELSE [self |-> [extended EXCEPT !.inner = upd.val], res |-> Ok(<<>>)]
        Updated(extended) == Stored(extended, update_inner(extended))
        Extended(file) ==
            IF ~IsOk(file) THEN [self |-> self, res |-> Err(file.kind)]
            ELSE Updated([self EXCEPT !.filemap = self.filemap \o file.val.filemap])
    IN  Extended(from_raw(raw_data))

(***************************************************************************)
(* Session: set_stream, scan, delete, get_link                             *)
(***************************************************************************)
\* A read or write on the TcpStream that fails, in place of a response.
IoError == <<-1>>

QUOTE_COMMA_QUOTE == B("\",\"")
RESULT_TRUE == B("\"result\":true")
DATA_EMPTY == B("\"data\":[],")
SUCCESS_FALSE == B("\"success\":false")
KEY_OBJECTID == B("\"objectId\"")
KEY_NAME == B("\"name\"")
KEY_RESIDSTR == B("\"residstr\"")
HEADER_END == CRLF \o CRLF
VAR_DOWNLOAD_URL == B("vardownloadUrl='")
URL_END == B("';") \o CRLF
\* The UTF-8 bytes of the marker the download host sends for an unknown id.
LINK_FAILED == <<232, 142, 183, 229, 143, 150, 228, 184, 139, 232, 189, 189,
                 229, 156, 176, 229, 157, 128, 229, 164, 177, 232, 180, 165>>

\* CloudFile::set_stream. connected tells whether TcpStream::connect succeeds;
\* when it fails the assignment to self.stream is never reached.
\* set_stream as it would be if Stream::None kept the connection.
set_stream_keeping(self, target, connected) ==
    IF target = "None" THEN [self |-> self, res |-> Ok(<<>>)]
    ELSE IF ~connected THEN [self |-> self, res |-> Err("ConnectionRefused")]
    ELSE [self |-> [self EXCEPT !.stream = target], res |-> Ok(<<>>)]

\* set_stream as it would be if it dropped the old connection before it
\* connects: a connect that fails then leaves no connection.
set_stream_dropping(self, target, connected) ==
    IF target = "None" THEN [self |-> [self EXCEPT !.stream = "None"], res |-> Ok(<<>>)]
    ELSE IF ~connected
    THEN [self |-> [self EXCEPT !.stream = "None"], res |-> Err("ConnectionRefused")]
    ELSE [self |-> [self EXCEPT !.stream = target], res |-> Ok(<<>>)]

\* CloudFile::set_stream: Stream::None drops the connection; a connect that
\* fails returns before the field is assigned.
set_stream(self, target, connected) ==
    IF target = "None" THEN [self |-> [self EXCEPT !.stream = "None"], res |-> Ok(<<>>)]
    ELSE IF ~connected THEN [self |-> self, res |-> Err("ConnectionRefused")]
    ELSE [self |-> [self EXCEPT !.stream = target], res |-> Ok(<<>>)]

\* What set_stream does to sockets, in the order it does it. In an
\* assignment the right-hand side is evaluated first: TcpStream::connect
\* opens the new socket, a failure returns through the question mark before
\* anything else happens, and only then the assignment drops the value the
\* field held, which closes the old socket.
SocketEvents(self, target, connected) ==
    IF target = "None"
    THEN IF self.stream = "None" THEN <<>> ELSE <<"close">>
    ELSE IF ~connected THEN <<>>
    ELSE <<"open">> \o (IF self.stream = "None" THEN <<>> ELSE <<"close">>)

\* The sockets the session has open after the first n of these events.
SocketsOpen(self, events, n) ==
    (IF self.stream = "None" THEN 0 ELSE 1)
        + Cardinality({i \in 1..n : events[i] = "open"})
        - Cardinality({i \in 1..n : events[i] = "close"})

\* The value of one field of a record as it would be if a record without
\* the key gave the empty string.
Field_lenient(file, key, skip) ==
    LET Until(rest, e) ==
            IF e = 0 THEN Err("ConnectionReset") ELSE Ok(SubSeq(rest, 1, e - 1))
        After(rest) == Until(rest, Find(rest, QUOTE_COMMA_QUOTE))
    IN  IF Find(file, key) = 0 THEN Ok(<<>>)
        ELSE After(From(file, Find(file, key) + skip))

\* The value of one field of a record: the text between key plus skip bytes
\* and the next quote-comma-quote. Slicing past the end of the record panics.
Field(file, key, skip) ==
    LET Until(rest, e) ==
            IF e = 0 THEN Err("ConnectionReset") ELSE Ok(SubSeq(rest, 1, e - 1))
        After(rest) == Until(rest, Find(rest, QUOTE_COMMA_QUOTE))
        At(o) ==
            IF o = 0 THEN Err("ConnectionReset")
            ELSE IF o - 1 + skip > Len(file) THEN Err("Panic")
            ELSE After(From(file, o + skip))
    IN  At(Find(file, key))

\* The loop of scan over the records: the entries pushed to filemap and the
\* residual ids collected until the loop ends or returns an error.
RECURSIVE ScanRecords(_, _, _)
ScanRecords(files, pushed, resid) ==
    LET Stop(kind, entries) ==
            [kind |-> kind, pushed |-> entries, resid |-> resid, msg |-> <<>>]
        One(objid, name, res) ==
            IF ~IsOk(objid) THEN Stop(objid.kind, pushed)
            ELSE IF ~IsOk(name) THEN Stop(name.kind, pushed)
            ELSE IF ~IsOk(res)
            THEN Stop(res.kind, Append(pushed, <<name.val, objid.val>>))
            ELSE ScanRecords(Tail(files), Append(pushed, <<name.val, objid.val>>),
                             Append(resid, res.val))
    IN  IF files = <<>> THEN Stop("Ok", pushed)
        ELSE One(Field(Head(files), KEY_OBJECTID, 12), Field(Head(files), KEY_NAME, 8),
                 Field(Head(files), KEY_RESIDSTR, 12))

\* What scan does with the bytes read for the listing request.
ScanListing(read) ==
    LET Stop(kind, msg) == [kind |-> kind, pushed |-> <<>>, resid |-> <<>>, msg |-> msg]
        Array(data, b, e) ==
            IF b = 0 \/ e = 0 THEN Stop("ConnectionReset", <<>>)
            ELSE IF b + 2 > e THEN Stop("Panic", <<>>)
            ELSE ScanRecords(Split(SubSeq(data, b + 2, e - 1), B("},{")), <<>>, <<>>)
        Body(data) ==
            IF ~Contains(data, RESULT_TRUE) THEN Stop("PermissionDenied", data)
            ELSE IF Contains(data, DATA_EMPTY) THEN Stop("Ok", <<>>)
            ELSE Array(data, Find(data, B("[{")), Find(data, B("}]")))
        Headed(parts) ==
            IF parts = <<>> THEN Stop("UnexpectedEof", <<>>) ELSE Body(parts[2])
    IN  IF read = IoError THEN Stop("BrokenPipe", <<>>)
        ELSE Headed(SplitOnce(Utf8Lossy(read), HEADER_END))

\* delete as it would be if an answer with success false were an error.
delete_strict(resid, read) ==
    LET Sent(res) == [res |-> res, sent |-> TRUE]
        Headed(parts) ==
            IF parts = <<>> THEN Sent(Err("ConnectionReset"))
            ELSE IF Contains(parts[2], RESULT_TRUE) /\ ~Contains(parts[2], SUCCESS_FALSE)
            THEN Sent(Ok(TRUE))
            ELSE Sent(ErrWith("PermissionDenied", parts[2]))
    IN  IF resid = <<>> THEN [res |-> Ok(TRUE), sent |-> FALSE]
        ELSE IF read = IoError THEN Sent(Err("BrokenPipe"))
        ELSE Headed(SplitOnce(Utf8Lossy(read), HEADER_END))

\* delete as it would be if it never wrote its request.
delete_unsent(resid, read) == [res |-> Ok(TRUE), sent |-> FALSE]

\* CloudFile::delete: Ok carries the bool; sent tells whether a request left.
delete(resid, read) ==
    LET Sent(res) == [res |-> res, sent |-> TRUE]
        Headed(parts) ==
            IF parts = <<>> THEN Sent(Err("ConnectionReset"))
            ELSE IF Contains(parts[2], RESULT_TRUE)
            THEN Sent(Ok(~Contains(parts[2], SUCCESS_FALSE)))
            ELSE Sent(ErrWith("PermissionDenied", parts[2]))
    IN  IF resid = <<>> THEN [res |-> Ok(TRUE), sent |-> FALSE]
        ELSE IF read = IoError THEN Sent(Err("BrokenPipe"))
        ELSE Headed(SplitOnce(Utf8Lossy(read), HEADER_END))

\* The let-else that opens scan and get_link, as it would be if it let a
\* catalog without a stream through.
Unavailable_never(self) == FALSE

\* The let-else that opens scan and get_link: there is no stream.
Unavailable(self) == self.stream = "None"

Request(kind, host) == [kind |-> kind, host |-> host]

\* CloudFile::scan on the catalog self, given the bytes the peer answers to
\* the listing request and to the delete request: the new catalog, the
\* result and the requests written to the stream.
scan(self, read, dread) ==
    LET Counted(pushed, reqs, upd) ==
            IF ~IsOk(upd)
            THEN [self |-> pushed, res |-> Err(upd.kind), reqs |-> reqs]
            ELSE IF Len(pushed.filemap) = Len(self.filemap)
            THEN [self |-> set_stream([pushed EXCEPT !.inner = upd.val], "None", TRUE).self,
                  res |-> Err("WriteZero"), reqs |-> reqs]
            ELSE [self |-> [pushed EXCEPT !.inner = upd.val],
                  res |-> Ok(Len(pushed.filemap) - Len(self.filemap)), reqs |-> reqs]
        Deleted(pushed, del, reqs) ==
            IF ~IsOk(del.res) THEN [self |-> pushed, res |-> del.res, reqs |-> reqs]
            ELSE Counted(pushed, reqs, update_inner(pushed))
        Asked(pushed, del) ==
            Deleted(pushed, del,
                    <<Request("list", self.stream)>>
                        \o (IF del.sent THEN <<Request("delete", self.stream)>> ELSE <<>>))
        Listed(listing, pushed) ==
            IF listing.kind # "Ok"
            THEN [self |-> pushed, res |-> ErrWith(listing.kind, listing.msg),
                  reqs |-> <<Request("list", self.stream)>>]
            ELSE Asked(pushed, delete(listing.resid, dread))
        Pushed(listing) ==
            Listed(listing, [self EXCEPT !.filemap = self.filemap \o listing.pushed])
    IN  IF Unavailable(self)
        THEN [self |-> self, res |-> Err("AddrNotAvailable"), reqs |-> <<>>]
        ELSE Pushed(ScanListing(read))

\* CloudFile::get_link: the result and the requests written to the stream.
get_link(self, object_id, read) ==
    LET Answer(res) == [res |-> res, reqs |-> <<Request("download", self.stream)>>]
        Failed(data, body) ==
            IF Contains(data, LINK_FAILED) THEN Answer(Err("NotFound"))
            ELSE IF body = <<>> THEN Answer(Err("UnexpectedEof"))
            ELSE Answer(ErrWith("UnexpectedEof", body[2]))
        Url(url) ==
            IF url = <<>> THEN Answer(Err("ConnectionReset")) ELSE Answer(Ok(url[1]))
        Found(data, x) ==
            IF x # 0 THEN Url(SplitOnce(From(data, x + 16), URL_END))
            ELSE Failed(data, SplitOnce(data, HEADER_END))
        Read(data) == Found(data, Find(data, VAR_DOWNLOAD_URL))
    IN  IF Unavailable(self) THEN [res |-> Err("AddrNotAvailable"), reqs |-> <<>>]
        ELSE IF read = IoError THEN Answer(Err("BrokenPipe"))
        ELSE Read(DropSpaces(Utf8Lossy(read)))

(***************************************************************************)
(* The inputs: credentials, passkeys, persisted containers, and what the   *)
(* two remote hosts answer.                                                *)
(***************************************************************************)
\* uid, token, dirid; the second set has the empty dirid (the account root).
CredSets == { <<B("29"), B("b8"), B("94")>>, <<B("7"), B("tk"), <<>>>> }

GoodPasswds == { <<2, 5, 1, 3>>, <<127, 97, 112, 128>> }
\* Negative determinant, zero determinant, a component above 128.
BadPasswds == { <<1, 2, 3, 4>>, <<3, 3, 3, 3>>, <<129, 1, 1, 129>> }

\* A catalog as another session left it: its fields and its raw bytes.
Saved(cred, passwd, map) ==
    LET Rebuilt(made) == [made EXCEPT !.inner = update_inner(made).val]
    IN  Rebuilt([new(cred[1], cred[2], cred[3], passwd).val EXCEPT !.filemap = map])

CredB == <<B("31"), B("c9"), B("55")>>
\* The list region of SavedEven takes 4 bytes, that of SavedOdd 5 and that of
\* SavedTwo 12.
SavedEmpty == Saved(CredB, <<2, 5, 1, 3>>, <<>>)
SavedEven == Saved(CredB, <<3, 1, 2, 4>>, << <<B("f"), B("o1")>> >>)
SavedOdd == Saved(CredB, <<3, 1, 2, 4>>, << <<B("f1"), B("o1")>> >>)
SavedTwo == Saved(CredB, <<127, 97, 112, 128>>,
                  << <<B("g"), B("o22")>>, <<B("h2"), B("o22")>> >>)

\* raw with the bytes from position at on replaced by patch.
Patch(raw, at, patch) ==
    SubSeq(raw, 1, at - 1) \o patch \o From(raw, at + Len(patch))

\* The byte sequences handed to from_raw and extend_from_raw: containers of
\* saved catalogs (with their entries) and damaged or foreign files.
Sources ==
    [ empty    |-> [raw |-> SavedEmpty.inner, filemap |-> SavedEmpty.filemap],
      even     |-> [raw |-> SavedEven.inner, filemap |-> SavedEven.filemap],
      odd      |-> [raw |-> SavedOdd.inner, filemap |-> SavedOdd.filemap],
      two      |-> [raw |-> SavedTwo.inner, filemap |-> SavedTwo.filemap],
      short    |-> [raw |-> SubSeq(SavedEven.inner, 1, MinLen - 1), filemap |-> <<>>],
      magic_a  |-> [raw |-> Patch(SavedEven.inner, 1, <<3, 3, 4, 22>>), filemap |-> <<>>],
      magic_b  |-> [raw |-> Patch(SavedEven.inner, 5, <<0, 23, 10, 8>>), filemap |-> <<>>],
      magic_ab |-> [raw |-> Patch(SavedEven.inner, 1, <<80, 75, 3, 4, 20, 0, 0, 0>>),
                    filemap |-> <<>>],
      passwd   |-> [raw |-> Patch(SavedEven.inner, 9, <<1, 2, 3, 4>>), filemap |-> <<>>],
      no_sub   |-> [raw |-> Saved(CredB, <<2, 5, 1, 3>>, << <<B("f"), B("o1")>> >>).inner
                               \o sixteen_to_eight(matrix_encode(<<2, 5, 1, 3>>,
                                                                 <<ESC, 102>>).val),
                    filemap |-> <<>>],
      junk     |-> [raw |-> Patch(SavedEven.inner, 17, <<0, 1, 255, 255>>), filemap |-> <<>>] ]

\* The sources a live catalog is extended from.
MergeSources == {"empty", "even", "odd", "two", "short", "magic_ab", "junk"}

HTTP_OK == B("HTTP/1.1 200 OK") \o CRLF \o B("Content-Type: text/json") \o HEADER_END

\* One record of a directory listing.
Record(objid, name, resid) ==
    B("\"objectId\":\"") \o objid \o B("\",\"name\":\"") \o name
        \o B("\",\"residstr\":\"") \o resid \o B("\",\"type\":\"file\"")

Listing(records) ==
    HTTP_OK \o B("{\"result\":true,\"data\":[{") \o Join(records, B("},{"))
        \o B("}],\"msg\":\"\"}")

Rec1 == Record(B("a1"), B("x.c"), B("r1"))
Rec2 == Record(B("a2"), B("y"), B("r2"))

\* What the catalog host answers to the listing request.
ListReads ==
    [ none     |-> HTTP_OK \o B("{\"result\":true,\"data\":[],\"msg\":\"\"}"),
      one      |-> Listing(<<Rec2>>),
      two      |-> Listing(<<Rec1, Rec2>>),
      five     |-> Listing(<<Rec1, Rec1, Rec1, Rec1, Rec1>>),
      denied   |-> HTTP_OK \o B("{\"result\":false,\"msg\":\"token\"}"),
      no_head  |-> B("{\"result\":true,\"data\":[],\"msg\":\"\"}"),
      no_array |-> HTTP_OK \o B("{\"result\":true,\"data\":[]}"),
      no_objid |-> Listing(<<Rec1, B("\"name\":\"z\",\"residstr\":\"r3\",\"type\":\"file\"")>>),
      no_name  |-> Listing(<<Rec1, B("\"objectId\":\"a3\",\"residstr\":\"r3\",\"type\":\"file\"")>>),
      no_resid |-> Listing(<<Rec1, B("\"objectId\":\"a3\",\"name\":\"z\",\"type\":\"file\"")>>),
      io       |-> IoError ]

\* What the catalog host answers to the delete request.
DeleteReads ==
    [ done    |-> HTTP_OK \o B("{\"result\":true,\"success\":true}"),
      failed  |-> HTTP_OK \o B("{\"result\":true,\"success\":false}"),
      denied  |-> HTTP_OK \o B("{\"result\":false}"),
      no_head |-> B("{\"result\":true}") ]

\* The pairs of answers one scan can meet; the delete answer is read only
\* when the listing yields residual ids.
ScanReads ==
    ({"none", "denied", "no_head", "no_array", "no_objid", "no_name", "no_resid", "io",
      "five"}
        \X {"done"})
    \cup ({"one", "two"} \X {"done", "failed", "denied", "no_head"})

\* What the download host answers.
LinkReads ==
    [ url       |-> HTTP_OK \o B("<script>") \o CRLF \o B("var downloadUrl = 'https://x/y';")
                        \o CRLF \o B("</script>"),
      \* a URL holding a space
      spaced    |-> HTTP_OK \o B("var downloadUrl='https://x/a b';") \o CRLF,
      \* the assignment with no line end after it
      one_line  |-> HTTP_OK \o B("<script>var downloadUrl='https://x/y';</script>"),
      not_found |-> HTTP_OK \o B("<p>") \o LINK_FAILED \o B("</p>"),
      other     |-> HTTP_OK \o B("<h1>403 Forbidden</h1>"),
      no_head   |-> B("busy") ]

ObjectIds == {B("a1")}


Self == [inner |-> inner, stream |-> stream, uid |-> uid, token |-> token,
         dirid |-> dirid, filemap |-> filemap]

Becomes(self) ==
    /\ inner' = self.inner
    /\ stream' = self.stream
    /\ uid' = self.uid
    /\ token' = self.token
    /\ dirid' = self.dirid
    /\ filemap' = self.filemap

NoCatalog == [inner |-> <<>>, stream |-> "None", uid |-> <<>>, token |-> <<>>,
              dirid |-> <<>>, filemap |-> <<>>]

Starts(self) ==
    /\ inner = self.inner
    /\ stream = self.stream
    /\ uid = self.uid
    /\ token = self.token
    /\ dirid = self.dirid
    /\ filemap = self.filemap

Call(op, arg, res, reqs) ==
    [op |-> op, arg |-> arg, res |-> res.kind, val |-> res.val, reqs |-> reqs]

NoJob == [passwd |-> <<>>, data |-> <<>>]
Idle == [step |-> "idle", arg |-> <<>>, res |-> Ok(<<>>)]

\* The catalog after a constructor has returned res.
Constructed(op, arg, res, passwd) ==
    /\ pc = IF IsOk(res) THEN "live" ELSE "failed"
    /\ Starts(IF IsOk(res) THEN res.val ELSE NoCatalog)
    /\ passwd0 = IF IsOk(res) THEN passwd ELSE <<>>
    /\ last = Call(op, arg, IF IsOk(res) THEN Ok(<<>>) ELSE res, <<>>)

\* The program dies in a panic during op.
Panicked(op, arg, reqs) ==
    /\ pc' = "aborted"
    /\ last' = Call(op, arg, Err("Panic"), reqs)

InitNew ==
    \E cred \in CredSets, passwd \in GoodPasswds \cup BadPasswds :
        Constructed("new", <<cred, passwd>>, new(cred[1], cred[2], cred[3], passwd), passwd)

\* from_raw on a file. Where matrix_decode underflows the build with
\* overflow checks panics and the build without them goes on with the
\* wrapped value.
InitFromRaw ==
    \E id \in DOMAIN Sources : \E raw \in {Sources[id].raw} :
        \/ Constructed("from_raw", id, from_raw(raw), InnerPasswd(raw))
        \/ /\ FromRawAborts(raw)
           /\ pc = "aborted"
           /\ Starts(NoCatalog)
           /\ passwd0 = <<>>
           /\ last = Call("from_raw", id, Err("Panic"), <<>>)

Init ==
    /\ InitNew \/ InitFromRaw
    /\ ops = 0
    /\ job = NoJob
    /\ out = Idle
    /\ remote = <<>>

Live == pc = "live" /\ ops < MaxOps

SetStream ==
    /\ Live
    /\ \E target \in {"Scan", "Link", "None"}, connected \in BOOLEAN :
        \E done \in {set_stream(Self, target, connected)} :
            /\ target = "None" => connected
            /\ Becomes(done.self)
            /\ last' = Call("set_stream", <<target, connected>>, done.res, <<>>)
    /\ ops' = ops + 1
    /\ UNCHANGED <<pc, passwd0, job, out, remote>>

\* With no stream nothing is read, so the peer's answers are not drawn.
Scan ==
    /\ Live
    /\ \E reads \in (IF stream = "None" THEN {<<"none", "done">>} ELSE ScanReads) :
        \E done \in {scan(Self, ListReads[reads[1]], DeleteReads[reads[2]])} :
            /\ Becomes(done.self)
            /\ last' = Call("scan", reads, done.res, done.reqs)
            /\ pc' = IF done.res.kind = "Panic" THEN "aborted" ELSE pc
    /\ ops' = ops + 1
    /\ UNCHANGED <<passwd0, job, out, remote>>

GetLink ==
    /\ Live
    /\ \E object_id \in ObjectIds,
          read \in (IF stream = "None" THEN {"url"} ELSE DOMAIN LinkReads) :
        \E done \in {get_link(Self, object_id, LinkReads[read])} :
            last' = Call("get_link", <<object_id, read>>, done.res, done.reqs)
    /\ ops' = ops + 1
    /\ UNCHANGED <<pc, inner, stream, uid, token, dirid, filemap, passwd0, job, out,
                   remote>>

ExtendFromRaw ==
    /\ Live
    /\ \E id \in MergeSources : \E raw \in {Sources[id].raw} :
        \/ \E done \in {extend_from_raw(Self, raw)} :
               /\ Becomes(done.self)
               /\ last' = Call("extend_from_raw", id, done.res, <<>>)
               /\ pc' = pc
        \/ /\ FromRawAborts(raw)
           /\ Panicked("extend_from_raw", id, <<>>)
           /\ UNCHANGED <<inner, stream, uid, token, dirid, filemap>>
    /\ ops' = ops + 1
    /\ UNCHANGED <<passwd0, job, out, remote>>

Next == SetStream \/ Scan \/ GetLink \/ ExtendFromRaw

Spec == Init /\ [][Next]_vars

(***************************************************************************)
(* The codec and the container format on their own: a passkey and a byte   *)
(* sequence are drawn, then encoded and decoded, assembled and parsed, or  *)
(* decoded as they are.                                                    *)
(***************************************************************************)
SeqsUpTo(S, n) == UNION {[1..k -> S] : k \in 0..n}

Bytes == {0, 1, 128, 255}
\* The accepted passkeys with the largest first and the largest second row,
\* and a refused one whose first row times two bytes 255 passes 65535.
EdgePasswds == { <<128, 128, 127, 128>>, <<128, 127, 128, 128>>, <<255, 255, 1, 2>> }
\* A passkey the guard accepts although its first row is zero.
Passwds == GoodPasswds \cup BadPasswds \cup {<<1, 0, 0, 1>>} \cup EdgePasswds

\* Short sequences for the codec, and plaintexts of a base region and a
\* list region for the container.
CodecData == SeqsUpTo(Bytes, MaxLen)
ContainerData ==
    {BaseData(cred[1], cred[2], cred[3]) \o tail :
        cred \in CredSets, tail \in SeqsUpTo(Bytes, MaxTail)}

Step(step, arg, res) == [step |-> step, arg |-> arg, res |-> res]

\* matrix_decode on words: its result, or where a subtraction underflows
\* the panic of the build with overflow checks as well.
DecodeOutcomes(passwd, words) ==
    {matrix_decode(passwd, words)}
        \cup (IF DecodeAborts(passwd, words) THEN {Err("Panic")} ELSE {})

CodecInit ==
    /\ pc = "codec"
    /\ Starts(NoCatalog)
    /\ passwd0 = <<>>
    /\ last = Call("none", <<>>, Ok(<<>>), <<>>)
    /\ ops = 0
    /\ job \in [passwd : Passwds, data : CodecData \cup ContainerData]
    /\ out = Idle
    /\ remote = <<>>

CodecKeeps == UNCHANGED <<pc, inner, stream, uid, token, dirid, filemap,
                          passwd0, last, ops, job, remote>>

Encode ==
    /\ pc = "codec"
    /\ out.step = "idle"
    /\ out' = Step("encoded", job.data, matrix_encode(job.passwd, job.data))
    /\ CodecKeeps

Decode ==
    /\ pc = "codec"
    /\ out.step = "encoded"
    /\ IsOk(out.res)
    /\ \E res \in DecodeOutcomes(job.passwd, out.res.val) :
            out' = Step("decoded", out.res.val, res)
    /\ CodecKeeps

\* matrix_decode on words that matrix_encode did not produce.
DecodeWords ==
    /\ pc = "codec"
    /\ out.step = "idle"
    /\ \E res \in DecodeOutcomes(job.passwd, job.data) :
            out' = Step("decoded_words", job.data, res)
    /\ CodecKeeps

Assemble ==
    /\ pc = "codec"
    /\ out.step = "idle"
    /\ Len(job.data) >= BaseLen
    /\ out' = Step("assembled", job.data, Container(job.passwd, job.data))
    /\ CodecKeeps

\* The assembled container read back: the checks and the decoding of
\* from_raw, in either build.
ParseBack ==
    /\ pc = "codec"
    /\ out.step = "assembled"
    /\ IsOk(out.res)
    /\ \E res \in {Parse(out.res.val)}
                    \cup (IF FromRawAborts(out.res.val) THEN {Err("Panic")} ELSE {}) :
            out' = Step("parsed", out.res.val, res)
    /\ CodecKeeps

\* Credentials whose join by ESC is 66 bytes long, two more than the base
\* region: a 32 byte token and a 30 byte directory id.
LongCred ==
    << B("29"), B("0123456789abcdef0123456789abcdef"),
       B("0123456789abcdef0123456789abcd") >>

CodecCreds == CredSets \cup {LongCred}

\* The constructors under the drawn passkey; they take no data.
New ==
    /\ pc = "codec"
    /\ out.step = "idle"
    /\ job.data = <<>>
    /\ \E cred \in CodecCreds :
            out' = Step("new", cred, new(cred[1], cred[2], cred[3], job.passwd))
    /\ CodecKeeps

\* update_inner on the catalog new returned, with the entries of a scan in
\* its list: the argument is the catalog, the result its new raw bytes.
Update ==
    /\ pc = "codec"
    /\ out.step = "new"
    /\ IsOk(out.res)
    /\ \E map \in {<<>>, << <<B("x.c"), B("a1")>> >>,
                    << <<B("x.c"), B("a1")>>, <<B("y"), B("a2")>> >>} :
         \E made \in {[out.res.val EXCEPT !.filemap = map]} :
            out' = Step("updated", made, update_inner(made))
    /\ CodecKeeps

\* Files whose base region holds uid ESC token and no second ESC, and a uid
\* and no ESC at all, each padded with zero bytes to the base length.
OneEscFile ==
    Container(<<2, 5, 1, 3>>,
              B("31") \o <<ESC>> \o B("c9") \o [i \in 1..(BaseLen - 5) |-> 0]).val
NoEscFile ==
    Container(<<2, 5, 1, 3>>, B("31") \o [i \in 1..(BaseLen - 2) |-> 0]).val

\* The files handed to from_raw on its own.
CodecFiles ==
    {Sources[id].raw : id \in {"empty", "even", "odd", "short", "magic_ab", "no_sub"}}
        \cup {OneEscFile, NoEscFile, SubSeq(Sources.magic_ab.raw, 1, MinLen - 1)}

\* from_raw on a file whose passkey field holds the drawn passkey.
FromRaw ==
    /\ pc = "codec"
    /\ out.step = "idle"
    /\ job.data = <<>>
    /\ \E file \in CodecFiles :
        \E raw \in {Patch(file, 9, job.passwd)} :
        \E res \in {from_raw(raw)} \cup (IF FromRawAborts(raw) THEN {Err("Panic")} ELSE {}) :
            out' = Step("from_raw", raw, res)
    /\ CodecKeeps

\* Sequences of 16 bit words, of even and of odd length.
Words == {0, 255, 256, 65535}
CodecWords == SeqsUpTo(Words, MaxLen)

\* Drawn words unpacked into bytes by sixteen_to_eight and the bytes packed
\* by eight_to_sixteen; it takes no data.
Unpack ==
    /\ pc = "codec"
    /\ out.step = "idle"
    /\ job.data = <<>>
    /\ \E from \in CodecWords : \E bytes \in {sixteen_to_eight(from)} :
            out' = Step("unpacked", from,
                        [bytes |-> bytes, words |-> eight_to_sixteen(bytes)])
    /\ CodecKeeps

\* The drawn bytes packed into words by eight_to_sixteen and the words
\* unpacked by sixteen_to_eight.
Repack ==
    /\ pc = "codec"
    /\ out.step = "idle"
    /\ \E words \in {eight_to_sixteen(job.data)} :
            out' = Step("repacked", job.data,
                        [words |-> words, bytes |-> sixteen_to_eight(words)])
    /\ CodecKeeps

CodecNext ==
    Encode \/ Decode \/ DecodeWords \/ Assemble \/ ParseBack \/ New \/ Update
        \/ FromRaw \/ Repack \/ Unpack

CodecSpec == CodecInit /\ [][CodecNext]_vars

(***************************************************************************)
(* The catalogs a caller gets from new followed by scans and merges that   *)
(* all succeed, with connects and disconnects in between.                  *)
(***************************************************************************)
BuiltInit == Init /\ pc = "live" /\ last.op = "new"

ScanOk == Scan /\ last'.res = "Ok"

ExtendOk == ExtendFromRaw /\ last'.res = "Ok"

BuiltNext == SetStream \/ ScanOk \/ ExtendOk

BuiltSpec == BuiltInit /\ [][BuiltNext]_vars

(***************************************************************************)
(* The loop of the second example: new, set_stream(Scan), then scan as     *)
(* long as it returns Ok. The catalog host is followed from call to call:  *)
(* it holds finitely many records, lists at most PageSize of them, the     *)
(* oldest first, and drops the listed ones when scan asks it to.           *)
(***************************************************************************)
\* size=4 in the listing request.
PageSize == 4

\* The listing the host sends for the first count of its records.
RemoteListing(records, count) ==
    IF count = 0 THEN ListReads.none ELSE Listing(SubSeq(records, 1, count))

\* The records left on the host once scan has written its requests.
RemoteDelete(records, count, reqs) ==
    IF \E i \in 1..Len(reqs) : reqs[i].kind = "delete"
    THEN SubSeq(records, count + 1, Len(records))
    ELSE records

\* The result of a scan with the count of Ok(count) as a sequence of one
\* number, so that the value of a result is a sequence in every state.
Counts(res) == IF IsOk(res) THEN Ok(<<res.val>>) ELSE res

LoopInit ==
    /\ InitNew
    /\ pc = "live"
    /\ ops = 0
    /\ job = NoJob
    /\ out = Idle
    /\ remote \in SeqsUpTo({Rec1, Rec2}, MaxRecords)

\* cloud.set_stream(Stream::Scan)?
Connect ==
    /\ pc = "live"
    /\ last.op = "new"
    /\ \E connected \in BOOLEAN :
        \E done \in {set_stream(Self, "Scan", connected)} :
            /\ Becomes(done.self)
            /\ last' = Call("set_stream", <<"Scan", connected>>, done.res, <<>>)
    /\ ops' = ops + 1
    /\ UNCHANGED <<pc, passwd0, job, out, remote>>

\* while let Ok(_) = cloud.scan() {}
\* The catalog is followed as long as it holds no more entries than the
\* host held records.
LoopScan ==
    /\ pc = "live"
    /\ last.op \in {"set_stream", "scan"}
    /\ last.res = "Ok"
    /\ Len(filemap) <= MaxRecords
    /\ \E count \in (IF remote = <<>> THEN {0}
                      ELSE 1..Min({PageSize, Len(remote)})) :
        \E done \in {scan(Self, RemoteListing(remote, count), DeleteReads.done)} :
            /\ Becomes(done.self)
            /\ last' = Call("scan", count, Counts(done.res), done.reqs)
            /\ pc' = IF done.res.kind = "Panic" THEN "aborted" ELSE pc
            /\ remote' = RemoteDelete(remote, count, done.reqs)
    /\ ops' = ops + 1
    /\ UNCHANGED <<passwd0, job, out>>

LoopNext == Connect \/ LoopScan

\* A step of the loop: the caller stands before a call, which set_stream and
\* scan always return from, and makes it.
Calls ==
    pc = "live" /\ last.res = "Ok" /\ Len(filemap) <= MaxRecords /\ ops' = ops + 1

\* The caller is one sequential program and every read returns, so the
\* call it stands before is made.
LoopSpec == LoopInit /\ [][LoopNext]_vars /\ WF_ops(Calls)

(***************************************************************************)
(* Properties                                                              *)
(***************************************************************************)
\* The step is one operation on the live catalog.
Returns(op) == pc = "live" /\ ops' = ops + 1 /\ last'.op = op

CatalogUnchanged == UNCHANGED <<inner, stream, uid, token, dirid, filemap>>

\* The listing answers that parse, with the number of records they carry,
\* and the delete answers that carry result true.
Appends == [none |-> 0, one |-> 1, two |-> 2, five |-> 5]
Acknowledged == {"done", "failed"}

ScanRoundStep ==
    (/\ Returns("scan")
     /\ stream # "None"
     /\ last'.arg[1] \in DOMAIN Appends
     /\ last'.arg[2] \in Acknowledged)
    => IF Appends[last'.arg[1]] = 0
       THEN /\ last'.res = "WriteZero"
            /\ stream' = "None"
            /\ filemap' = filemap
       ELSE /\ last'.res = "Ok"
            /\ last'.val = Appends[last'.arg[1]]
            /\ stream' = stream
            /\ Len(filemap') = Len(filemap) + Appends[last'.arg[1]]

\* C1: a scan on a connected session whose answers are well formed and
\* successful fails with WriteZero and leaves the session without a stream
\* when the round appends nothing, and returns Ok(k) and keeps the stream
\* when it appends k > 0 entries.
ScanRound == [][ScanRoundStep]_vars

\* Two entries on round 1, none on round 2: the second scan has just failed
\* with WriteZero on a catalog built empty, and the stream is gone.
ScanRoundDrained ==
    /\ last.op = "scan"
    /\ last.arg = <<"none", "done">>
    /\ last.res = "WriteZero"
    /\ stream = "None"
    /\ ops = 3
    /\ filemap = << <<B("x.c"), B("a1")>>, <<B("y"), B("a2")>> >>

HostGatingStep ==
    /\ (Returns("scan") /\ stream = "Link")
        => (last'.res # "Ok" /\ last'.reqs = <<>> /\ CatalogUnchanged)
    /\ (Returns("get_link") /\ stream = "Scan")
        => (last'.res # "Ok" /\ last'.reqs = <<>>)

\* C2: scan is rejected on a stream to the download host, with no request
\* sent and the catalog unchanged, and get_link is rejected on a stream to
\* the catalog host.
HostGating == [][HostGatingStep]_vars

DisconnectedStep ==
    ((Returns("scan") \/ Returns("get_link")) /\ stream = "None")
    => (last'.res = "AddrNotAvailable" /\ last'.reqs = <<>> /\ CatalogUnchanged)

\* C3: the catalog new or from_raw has just returned has no stream, and
\* without a stream scan and get_link fail with AddrNotAvailable, send no
\* request and leave stream, credentials, filemap and inner unchanged.
Disconnected ==
    /\ [](pc = "live" /\ ops = 0 => stream = "None")
    /\ [][DisconnectedStep]_vars

\* get_link has just failed on a catalog fresh from its constructor.
DisconnectedRefused ==
    /\ ops = 1
    /\ last.op = "get_link"
    /\ last.res = "AddrNotAvailable"
    /\ stream = "None"

\* The catalog self has for inner the container of its credentials and
\* entries under the passkey of the catalog.
InSync(self) ==
    self.inner = Container(passwd0, BaseData(self.uid, self.token, self.dirid)
                                        \o ListData(self.filemap)).val

\* C4: after every operation returns, with Ok or with an error, inner is the
\* container assembled from the current credentials and filemap; stated for
\* the operations on a live catalog whose inner was in sync when they began.
SyncKept == [][(pc = "live" /\ ops' = ops + 1 /\ InSync(Self)) => InSync(Self')]_vars

\* C5: for every passkey the guard accepts and every byte sequence, of even
\* or odd length, matrix_decode of matrix_encode gives the sequence back.
CodecRoundTrip == out.step = "decoded" => out.res = Ok(job.data)

\* C6: for every passkey the guard accepts and every plaintext of at least
\* 64 bytes, parsing the assembled container gives back the passkey and the
\* plaintext.
ContainerRoundTrip ==
    out.step = "parsed" => out.res = Ok([passwd |-> job.passwd, data |-> job.data])

\* C7: from_raw of a file of at least 144 bytes fails with Unsupported when
\* either of the two magic fields differs from its constant.
MagicRejection ==
    (/\ ops = 0
     /\ last.op = "from_raw"
     /\ Len(Sources[last.arg].raw) >= 144
     /\ \/ SubSeq(Sources[last.arg].raw, 1, 4) # <<3, 3, 4, 21>>
        \/ SubSeq(Sources[last.arg].raw, 5, 8) # <<7, 23, 10, 8>>)
    => last.res = "Unsupported"

\* A passkey with a component above 128 or with a*d <= b*c.
Refused(passwd) ==
    \/ \E i \in 1..4 : passwd[i] > 128
    \/ passwd[1] * passwd[4] <= passwd[2] * passwd[3]

\* The operation gets as far as the codec: a file handed to from_raw has the
\* length and the two magic fields.
ReachesCodec ==
    /\ out.step \in {"encoded", "decoded_words", "assembled", "new", "from_raw"}
    /\ out.step = "from_raw"
        => /\ Len(out.arg) >= 144
           /\ SubSeq(out.arg, 1, 8) = <<3, 3, 4, 21, 7, 23, 10, 8>>

\* C8: under a passkey with a*d <= b*c or with a component above 128,
\* matrix_encode and matrix_decode, and with them new and from_raw, fail
\* with InvalidInput and produce no catalog.
DeterminantGuard ==
    (Refused(job.passwd) /\ ReachesCodec) => out.res = Err("InvalidInput")

\* from_raw has met a zero determinant in a file that is otherwise sound.
DeterminantGuardZero ==
    /\ out.step = "from_raw"
    /\ job.passwd = <<3, 3, 3, 3>>
    /\ Len(out.arg) >= 144
    /\ SubSeq(out.arg, 1, 8) = <<3, 3, 4, 21, 7, 23, 10, 8>>
    /\ out.res.kind = "InvalidInput"

\* C9: after a successful extend_from_raw with the container of catalog B,
\* filemap is the former filemap followed by the entries of B in their
\* order, and uid, token and dirid are unchanged.
CatalogMerge ==
    [][(Returns("extend_from_raw") /\ last'.res = "Ok")
        => /\ filemap' = filemap \o Sources[last'.arg].filemap
           /\ UNCHANGED <<uid, token, dirid>>]_vars

\* C10: in every state of a live catalog bytes 8..11 of inner are the
\* passkey given to new or found in the bytes given to from_raw.
PasskeyFixed == pc = "live" => SubSeq(inner, 9, 12) = passwd0

\* A container under another passkey has just been merged.
PasskeyFixedMerged ==
    /\ pc = "live"
    /\ last.op = "extend_from_raw"
    /\ last.res = "Ok"
    /\ SubSeq(Sources[last.arg].raw, 9, 12) # passwd0

\* from_raw on the bytes as_ref returns for the catalog self.
Reload(self) == from_raw(self.inner)

\* C11: from_raw on the bytes of a catalog fresh from new gives a catalog
\* whose uid, token and dirid are those given to new, with the zero padding
\* of the base region gone, and whose filemap is empty.
CredentialRoundTrip ==
    (ops = 0 /\ last.op = "new" /\ pc = "live")
    => \E file \in {Reload(Self)} :
          /\ IsOk(file)
          /\ <<file.val.uid, file.val.token, file.val.dirid>> = last.arg[1]
          /\ file.val.filemap = <<>>

\* C12: for every catalog reached from new by scans and merges that all
\* succeed, from_raw on its bytes gives a filemap equal to its filemap.
EntryListRoundTrip ==
    \E file \in {Reload(Self)} : IsOk(file) /\ file.val.filemap = filemap

\* What each answer of the download host holds: the URL assigned to
\* downloadUrl, else the not-found marker, else its body.
LinkOutcome ==
    [ url       |-> Ok(B("https://x/y")),
      spaced    |-> Ok(B("https://x/a b")),
      one_line  |-> Ok(B("https://x/y")),
      not_found |-> Err("NotFound"),
      other     |-> ErrWith("UnexpectedEof", B("<h1>403 Forbidden</h1>")),
      no_head   |-> ErrWith("UnexpectedEof", B("busy")) ]

\* C13: get_link on a connected session returns Ok(U), U as the host wrote
\* it, when the answer assigns U to downloadUrl; the not-found error when the
\* answer holds the not-found marker and no assignment; and for every other
\* answer the remote-parse error carrying the body of the answer.
LinkOutcomes ==
    (pc = "live" /\ last.op = "get_link" /\ stream # "None")
    => \E want \in {LinkOutcome[last.arg[2]]} :
          last.res = want.kind /\ last.val = want.val

\* The loop has ended in the drained error with the session disconnected.
Drained == last.op = "scan" /\ last.res = "WriteZero" /\ stream = "None"

\* C14: once the caller has connected to the catalog host, the loop that
\* repeats scan while it returns Ok comes, after finitely many calls, to a
\* scan that returns the drained error and leaves the session disconnected.
ScanLoopTerminates ==
    (last.op = "set_stream" /\ last.res = "Ok") ~> Drained

\* The loop has drained a host that held more records than one listing
\* carries.
ScanLoopDrained ==
    Drained /\ remote = <<>> /\ Len(filemap) = MaxRecords /\ ops >= 4

ScanCountStep ==
    (Returns("scan") /\ last'.res = "Ok")
    => /\ last'.val \in 1..PageSize
       /\ Len(filemap') = Len(filemap) + last'.val

\* C15: whenever scan returns Ok(n), n is between 1 and 4 and is the number
\* of entries the call has appended to filemap, whatever the peer answers.
ScanCount == [][ScanCountStep]_vars

\* The base region holds fewer than two ESC bytes.
FewerFields(base) == Len(SelectSeq(base, LAMBDA b : b = ESC)) < 2

\* Some entry of the list region holds no SUB byte.
LacksSub(list) ==
    list # <<>> /\ \E entry \in {Split(list, <<ESC>>)[i] : i \in 1..Len(Split(list, <<ESC>>))} :
                      ~Contains(entry, <<SUB>>)

\* C16: from_raw fails with InvalidData when the decoded base region holds
\* fewer than two ESC bytes, so that it does not split into three fields, and
\* when an entry of the list region holds no SUB byte; a file with three
\* fields and an empty list region is accepted.
FieldErrors ==
    (out.step = "from_raw" /\ out.res.kind # "Panic")
    => \E plain \in {Parse(out.arg)} :
          LET Holds(base, list) ==
                  /\ (FewerFields(base) \/ LacksSub(list)) => out.res.kind = "InvalidData"
                  /\ (~FewerFields(base) /\ list = <<>>) => IsOk(out.res)
          IN  IsOk(plain) => Holds(SubSeq(plain.val.data, 1, BaseLen),
                                   From(plain.val.data, BaseLen + 1))

\* Why from_raw has to refuse a file: it is too short, a magic field is not
\* the constant, or the passkey is one the guard refuses.
FailureCause(raw) ==
    IF Len(raw) < 144 THEN "short"
    ELSE IF SubSeq(raw, 1, 4) # <<3, 3, 4, 21>> \/ SubSeq(raw, 5, 8) # <<7, 23, 10, 8>>
    THEN "magic"
    ELSE IF Refused(SubSeq(raw, 9, 12)) THEN "passkey"
    ELSE "none"

\* The error from_raw reports for a file: its kind and its message.
Reported(raw) == <<from_raw(raw).kind, FromRawMessage(raw)>>

ReconnectStep ==
    (Returns("set_stream") /\ stream # "None" /\ last'.arg[1] # "None")
    => \E events \in {SocketEvents(Self, last'.arg[1], last'.arg[2])} :
          /\ \A n \in 0..Len(events) : SocketsOpen(Self, events, n) <= 1
          /\ last'.res = "Ok"
                => /\ stream' = last'.arg[1]
                   /\ \E i \in 1..Len(events) : events[i] = "open"

\* C18: set_stream(Scan) or set_stream(Link) on a session that holds a
\* connection closes it before the new one is opened, so that the session
\* never has two sockets open; when the connect succeeds the session is
\* connected to the requested host by a newly opened socket.
Reconnect == [][ReconnectStep]_vars

ConnectionFrameStep ==
    /\ (ops' = ops + 1 /\ stream # "None" /\ stream' = "None")
        => \/ last'.op = "set_stream" /\ last'.arg[1] = "None"
           \/ last'.op = "scan" /\ last'.res = "WriteZero"
    /\ (Returns("scan") /\ last'.res # "WriteZero") => stream' = stream
    /\ Returns("get_link") => stream' = stream
    /\ Returns("extend_from_raw") => stream' = stream
    /\ (Returns("set_stream") /\ last'.res # "Ok") => stream' = stream

\* C19: a connected session becomes disconnected only by set_stream(None) or
\* by a scan that ends in the drained error; every other outcome of scan,
\* every get_link, every extend_from_raw and a connect that fails leave
\* stream as it was.
ConnectionFrame == [][ConnectionFrameStep]_vars

\* A connect has failed on a session that was connected, and the session
\* still is.
ConnectionFrameRefused ==
    /\ ops = 2
    /\ last.op = "set_stream"
    /\ last.res = "ConnectionRefused"
    /\ stream # "None"

DeleteFailureStep ==
    (/\ Returns("scan")
     /\ stream # "None"
     /\ last'.arg[1] \in {"one", "two"}
     /\ last'.arg[2] = "failed")
    => /\ last'.res = "Ok"
       /\ last'.val = Appends[last'.arg[1]]
       /\ Len(filemap') = Len(filemap) + last'.val
       /\ \E i \in 1..Len(last'.reqs) : last'.reqs[i].kind = "delete"
       /\ InSync(Self')

\* C20: when the answer to the delete request of scan carries result true
\* and success false, scan goes on: it rebuilds inner from the extended
\* filemap and returns Ok with the number of entries it has appended.
DeleteFailure == [][DeleteFailureStep]_vars

\* A scan of two records has returned Ok(2) although its delete request was
\* answered with success false.
DeleteFailureTwo ==
    /\ last.op = "scan"
    /\ last.arg = <<"two", "failed">>
    /\ last.res = "Ok"
    /\ last.val = 2
    /\ InSync(Self)

MissingFieldStep ==
    (/\ Returns("scan")
     /\ stream # "None"
     /\ last'.arg[1] \in {"no_objid", "no_name", "no_resid"})
    => /\ last'.res = "ConnectionReset"
       /\ \E i \in 1..Len(last'.reqs) : last'.reqs[i].kind = "list"
       /\ \A i \in 1..Len(last'.reqs) : last'.reqs[i].kind # "delete"

\* C21: when a record of a listing that carries result true lacks objectId,
\* name or residstr, scan fails with ConnectionReset and writes no delete
\* request.
MissingField == [][MissingFieldStep]_vars

\* scan has failed on a listing whose second record has no residstr,
\* having written the listing request only.
MissingFieldResid ==
    /\ last.op = "scan"
    /\ last.arg[1] = "no_resid"
    /\ last.res = "ConnectionReset"
    /\ Len(last.reqs) = 1

FailedScanStep ==
    (Returns("scan") /\ last'.res \notin {"Ok", "WriteZero", "Panic"})
    => filemap' = filemap

\* C22: when scan returns an error other than the drained error, filemap is
\* what it was before the call: no record of the failed round has been
\* appended, the record that failed to parse included.
FailedScan == [][FailedScanStep]_vars

\* The body of an answer that has a header and no result flag true; the
\* empty sequence for any other answer.
RefusedBody(read) ==
    IF read = IoError \/ SplitOnce(read, HEADER_END) = <<>> THEN <<>>
    ELSE IF Contains(SplitOnce(read, HEADER_END)[2], RESULT_TRUE) THEN <<>>
    ELSE SplitOnce(read, HEADER_END)[2]

RefusedListingStep ==
    (/\ Returns("scan")
     /\ stream # "None"
     /\ RefusedBody(ListReads[last'.arg[1]]) # <<>>)
    => /\ last'.res = "PermissionDenied"
       /\ last'.val = RefusedBody(ListReads[last'.arg[1]])
       /\ \A i \in 1..Len(last'.reqs) : last'.reqs[i].kind # "delete"
       /\ stream' = stream

\* C23: when the body of the answer to the listing request holds no result
\* flag true, scan fails with PermissionDenied, the error carries the body,
\* no delete request is written and the session stays connected.
RefusedListing == [][RefusedListingStep]_vars

\* scan has been refused by the catalog host and the session is still
\* connected to it.
RefusedListingKept ==
    /\ last.op = "scan"
    /\ last.arg[1] = "denied"
    /\ last.res = "PermissionDenied"
    /\ last.val = B("{\"result\":false,\"msg\":\"token\"}")
    /\ stream = "Scan"

AppendOnlyStep ==
    (pc = "live" /\ ops' = ops + 1)
    => /\ Len(filemap) <= Len(filemap')
       /\ SubSeq(filemap', 1, Len(filemap)) = filemap
       /\ uid' = uid
       /\ token' = token
       /\ dirid' = dirid

\* C24: over every call on a catalog (scan, extend_from_raw, set_stream,
\* get_link), whether it succeeds or fails, filemap before the call is a
\* prefix of filemap after it, and uid, token and dirid stay what they were
\* after construction.
AppendOnly == [][AppendOnlyStep]_vars

\* A file of entries has been merged into a catalog that held entries of a
\* scan.
AppendOnlyMerged ==
    /\ last.op = "extend_from_raw"
    /\ last.res = "Ok"
    /\ Len(filemap) >= 3
    /\ filemap[1] = <<B("x.c"), B("a1")>>

\* C25: in every container new or update_inner produces, the decoded
\* plaintext starts with the three credentials joined by ESC and padded with
\* zero bytes to 64 bytes, and the list region starts at byte 64: the bytes
\* after the first 64 begin with the list data of the entries. This is
\* claimed for every choice of credentials, the joins longer than 64 bytes
\* included.
BaseRegion ==
    LET Lays(plain, cred, map) ==
            /\ IsOk(plain)
            /\ SubSeq(plain.val.data, 1, BaseLen)
                    = Join(cred, <<ESC>>)
                        \o [i \in 1..(BaseLen - Len(Join(cred, <<ESC>>))) |-> 0]
            /\ SubSeq(plain.val.data, BaseLen + 1, BaseLen + Len(ListData(map)))
                    = ListData(map)
    IN  /\ out.step = "new" /\ IsOk(out.res)
            => Lays(Parse(out.res.val.inner), out.arg, <<>>)
        /\ out.step = "updated" /\ IsOk(out.res)
            => Lays(Parse(out.res.val),
                    <<out.arg.uid, out.arg.token, out.arg.dirid>>,
                    out.arg.filemap)

\* The credentials of 66 joined bytes serialized with one entry: the base
\* region ends inside the directory id and the list data starts at byte 66.
BaseRegionOverrun ==
    /\ out.step = "updated"
    /\ IsOk(out.res)
    /\ <<out.arg.uid, out.arg.token, out.arg.dirid>> = LongCred
    /\ Len(out.arg.filemap) = 1
    /\ SubSeq(Parse(out.res.val).val.data, 1, BaseLen)
            = SubSeq(Join(LongCred, <<ESC>>), 1, BaseLen)
    /\ SubSeq(Parse(out.res.val).val.data, BaseLen + 1, BaseLen + 2) = B("cd")

\* The same statement for the credentials whose join fits the base region.
BaseRegionFits ==
    LET Lays(plain, cred, map) ==
            /\ IsOk(plain)
            /\ SubSeq(plain.val.data, 1, BaseLen)
                    = Join(cred, <<ESC>>)
                        \o [i \in 1..(BaseLen - Len(Join(cred, <<ESC>>))) |-> 0]
            /\ SubSeq(plain.val.data, BaseLen + 1, BaseLen + Len(ListData(map)))
                    = ListData(map)
    IN  /\ out.step = "new" /\ IsOk(out.res) /\ out.arg \in CredSets
            => Lays(Parse(out.res.val.inner), out.arg, <<>>)
        /\ out.step = "updated" /\ IsOk(out.res)
                /\ <<out.arg.uid, out.arg.token, out.arg.dirid>> \in CredSets
            => Lays(Parse(out.res.val),
                    <<out.arg.uid, out.arg.token, out.arg.dirid>>,
                    out.arg.filemap)

\* C26: sixteen_to_eight(eight_to_sixteen(b)) is b for every b of even
\* length; for every b of odd length the trailing byte x becomes one word of
\* value x, which comes back as the two bytes 0, x, so that the result is one
\* byte longer than b and differs from it.
PackBoundary ==
    out.step = "repacked" =>
        LET PackedBack(b, words, bytes) ==
                IF Len(b) % 2 = 0 THEN bytes = b
                ELSE /\ words[Len(words)] = b[Len(b)]
                     /\ bytes = SubSeq(b, 1, Len(b) - 1) \o <<0, b[Len(b)]>>
                     /\ Len(bytes) = Len(b) + 1
                     /\ bytes # b
        IN  PackedBack(out.arg, out.res.words, out.res.bytes)

\* Three bytes ending in 255 packed and unpacked: four bytes ending 0, 255.
PackBoundaryOdd ==
    /\ out.step = "repacked"
    /\ out.arg = <<1, 128, 255>>
    /\ out.res.words = <<384, 255>>
    /\ out.res.bytes = <<1, 128, 0, 255>>

\* C27: from_raw returns a catalog or an error value for every byte
\* sequence, the payloads matrix_encode did not produce included: in
\* matrix_decode the u32 differences d*w0 - b*w1 and a*w1 - c*w0 never go
\* below zero, for every passkey the guard accepts and every pair of words.
DecodeTotal ==
    /\ out.step \in {"decoded_words", "from_raw"} => out.res.kind # "Panic"
    /\ out.step = "decoded_words" /\ PasswdGuard(job.passwd) = "Ok"
            /\ Len(out.arg) % 2 = 0
        => \A i \in 1..(Len(out.arg) \div 2) :
                ~DecodeUnderflows(job.passwd, out.arg[2 * i - 1], out.arg[2 * i])

\* The words 0, 1 under the passkey 2, 5, 1, 3: d*w0 - b*w1 is 0 - 5.
DecodeUnderflowWords ==
    /\ out.step = "decoded_words"
    /\ job.passwd = <<2, 5, 1, 3>>
    /\ out.arg = <<0, 1>>
    /\ out.res.kind = "Panic"

\* from_raw on a file that passes the header checks and aborts in
\* matrix_decode.
DecodeUnderflowFile ==
    /\ out.step = "from_raw"
    /\ PasswdGuard(job.passwd) = "Ok"
    /\ out.res.kind = "Panic"

\* C28: matrix_encode never overflows its 16 bit words: for every passkey
\* the guard accepts and every pair of bytes p0, p1 the sums a*p0 + b*p1 and
\* c*p0 + d*p1, and the products a*d and b*c of the guard, are at most 65535.
EncodeFits ==
    out.step = "encoded" /\ IsOk(out.res) =>
        LET Fits(passwd, data) ==
                /\ \A i \in 1..(Len(data) \div 2) :
                        ~EncodeOverflows(passwd, data[2 * i - 1], data[2 * i])
                /\ Len(data) % 2 = 1
                        => ~EncodeOverflows(passwd, data[Len(data)], 0)
        IN  Fits(job.passwd, out.arg)

\* The largest first row on two bytes 255: 128*255 + 128*255 is 65280.
EncodeFitsEdge ==
    /\ out.step = "encoded"
    /\ job.passwd = <<128, 128, 127, 128>>
    /\ out.arg = <<255, 255>>
    /\ out.res = Ok(<<65280, 65025>>)

\* C29: for every passkey the guard accepts and every byte sequence data,
\* matrix_encode emits 2*ceil(len(data)/2) words, an even count, and
\* matrix_decode of these words is that many bytes with data as their
\* prefix, followed for an odd len(data) by exactly one zero byte.
EncodedLength ==
    LET Pairs(data) == 2 * ((Len(data) + 1) \div 2)
        Padded(data) == IF Len(data) % 2 = 1 THEN data \o <<0>> ELSE data
    IN  /\ out.step = "encoded" /\ IsOk(out.res)
            => /\ Len(out.res.val) = Pairs(out.arg)
               /\ Len(out.res.val) % 2 = 0
        /\ out.step = "decoded"
            => /\ IsOk(out.res)
               /\ Len(out.res.val) = Pairs(job.data)
               /\ SubSeq(out.res.val, 1, Len(job.data)) = job.data
               /\ out.res.val = Padded(job.data)

\* Three bytes encoded to four words and decoded to the bytes and a zero.
EncodedLengthOdd ==
    /\ out.step = "decoded"
    /\ job.data = <<1, 128, 255>>
    /\ Len(out.arg) = 4
    /\ out.res = Ok(<<1, 128, 255, 0>>)

\* C30: in every reachable state of a catalog obtained from new or from a
\* successful from_raw, the raw bytes begin with the canonical 16 byte
\* header: the magic 3,3,4,21,7,23,10,8, the four passkey bytes, then the
\* trailer 25,0,0,3.
CanonicalHeader ==
    pc = "live" =>
        /\ Len(inner) >= 16
        /\ SubSeq(inner, 1, 8) = DayRz \o DayYy
        /\ SubSeq(inner, 9, 12) = passwd0
        /\ SubSeq(inner, 13, 16) = Etx

\* A file whose first magic field ends in 22 loaded by from_raw: the catalog
\* is live and its raw bytes are the file.
CanonicalHeaderForeign ==
    /\ pc = "live"
    /\ ops = 0
    /\ last.op = "from_raw"
    /\ last.res = "Ok"
    /\ inner = Sources["magic_a"].raw
    /\ SubSeq(inner, 1, 4) = <<3, 3, 4, 22>>

\* Once update_inner has run, after a scan or a merge that returned Ok, the
\* header is the canonical one whatever the file held.
CanonicalHeaderRewritten ==
    pc = "live" /\ last.op \in {"scan", "extend_from_raw"} /\ last.res = "Ok"
        => /\ SubSeq(inner, 1, 8) = DayRz \o DayYy
           /\ SubSeq(inner, 9, 12) = passwd0
           /\ SubSeq(inner, 13, 16) = Etx

\* C31: in every state reached from a successful new or from_raw through
\* any sequence of operations the raw bytes are at least 144 bytes long, so
\* that update_inner never fails for too short a container during a merge
\* or a scan: it succeeds on the catalog of every such state.
RawLength ==
    pc = "live" =>
        /\ Len(inner) >= MinLen
        /\ IsOk(update_inner(Self))

\* The second call or a later one is a scan or a merge that returned Ok:
\* update_inner has rewritten the raw bytes with two entries or more.
RawLengthRewritten ==
    /\ pc = "live"
    /\ ops >= 2
    /\ last.op \in {"scan", "extend_from_raw"}
    /\ last.res = "Ok"
    /\ Len(filemap) >= 2
    /\ Len(inner) > MinLen

\* C32: eight_to_sixteen(sixteen_to_eight(w)) is w for every sequence w of
\* 16 bit words, of even or of odd length: sixteen_to_eight emits two bytes
\* for each word, the high byte and then the low byte.
UnpackExact ==
    out.step = "unpacked" =>
        LET UnpackedBack(w, bytes, words) ==
                /\ Len(bytes) = 2 * Len(w)
                /\ \A i \in 1..Len(w) :
                        /\ bytes[2 * i - 1] = w[i] \div 256
                        /\ bytes[2 * i] = w[i] % 256
                /\ words = w
        IN  UnpackedBack(out.arg, out.res.bytes, out.res.words)

\* Three words, the last one 256, unpacked to six bytes and packed back.
UnpackExactOdd ==
    /\ out.step = "unpacked"
    /\ out.arg = <<65535, 255, 256>>
    /\ out.res.bytes = <<255, 255, 0, 255, 1, 0>>
    /\ out.res.words = <<65535, 255, 256>>

====
